---- MODULE Spec2Model ----
(***************************************************************************)
(* RouteBus: a typed publish/subscribe bus (createRouteBus) on top of the  *)
(* in-memory transport (createInMemoryTransport).                          *)
(*                                                                         *)
(* The bus operations are operators on a machine record m, translated from *)
(* the source one to one; a top-level call of the bus API is one action.   *)
(* The callbacks the caller supplies (handlers, drain processors) are      *)
(* inputs: each action draws what every handler does when it is invoked    *)
(* (return, raise, call back into the bus) from the set Behaviours.        *)
(***************************************************************************)
EXTENDS Integers, Sequences, FiniteSets, TLC

\* ------------------------------------------------------------------ inputs
\* Event names: the string keys of the event map (EventMap = Record<string, any>).
\* Event names are interchangeable, so a run uses them in this order.
EventOrder == <<"a", "b">>

Events == {EventOrder[i] : i \in 1..Len(EventOrder)}

Payloads == {1, 2}

\* Handler functions, compared by reference; a run uses them in this order.
HandlerOrder == <<"h1", "h2">>

Handlers == {HandlerOrder[i] : i \in 1..Len(HandlerOrder)}

\* What a handler does with the bus when it is invoked with (event, payload):
\*   return  - nothing, returns
\*   throw   - raises
\*   off     - bus.off(event, itself), returns
\*   offAll  - bus.off(event, h) for every other handler function h, returns
\*   emit    - bus.emit(event, payload + 1) while payload + 1 is a payload, returns
\*   enqueue - bus.enqueue(event, payload + 1) while payload + 1 is a payload, returns
\*   clear   - bus.clear(), returns
Behaviours == {"return", "throw", "off", "offAll", "emit", "enqueue", "clear"}

\* What a handler does when it re-enters the bus, beyond the above:
\*   on      - bus.on(event, g) for the other handler function g, returns
\*   once    - bus.once(event, g) for the other handler function g, returns
\*   drain   - bus.drain(), returns
NestedBehaviours ==
  {"return", "throw", "on", "once", "drain", "emit", "enqueue", "clear"}

\* What a custom drain processor does with (event, payload):
\*   return, throw, clear - as above; emit - bus.emit(event, payload);
\*   enqueue - bus.enqueue(event, payload + 1) while payload + 1 is a payload;
\*   throw2 - raises when the payload is 2, returns otherwise
ProcessorBehaviours == {"return", "throw", "throw2", "emit", "enqueue", "clear"}

\* A processor that re-enters the bus may also call bus.drain() (drain).
NestedProcessorBehaviours == {"return", "throw", "emit", "enqueue", "drain"}

\* A run makes at most MaxCalls top-level calls of the bus API.
MaxCalls == 4

VARIABLES
  listeners,            \* in-memory transport: Map<event, Set<handler>>
  unsubscribeFunctions, \* bus registry: Map<eventKey, Map<handler, unsubscribe>>
  queue,                \* bus queue: QueuedEvent[]
  nextWrapper,          \* identity of the next wrappedHandler closure once() creates
  ncalls,               \* top-level calls made so far
  budget,               \* top-level calls the run may make
  usedEvents,           \* how many event names of EventOrder the run has used
  usedHandlers,         \* how many handler functions of HandlerOrder it has used
  issued,               \* the unsubscribe closures on() has returned so far
  stale,                \* those of them the caller has invoked at least once
  closes,               \* how many times transport.close has been called so far
  gone,                 \* (event, h) unsubscribed by the caller and not registered since
  onceHist,             \* per wrappedHandler: what happened to it so far
  last,                 \* the last top-level call
  calls,                \* handler invocations made during the last top-level call
  pubs,                 \* transport.publish calls made during it
  procs,                \* items drain handed to a processor during it
  clears,               \* for each clear() during it, how many items were handed before
  drains,               \* drain calls begun during it, the top-level one included
  enqs,                 \* items enqueued during it, each with how many were handed before
  tops,                 \* transport operations called during it
  errors,               \* console.error reports it caused
  raised,               \* whether it raised into its caller
  transports,           \* two buses: the in-memory transports created, each a listeners Map
  buses,                \* two buses: per bus its transport, registry and queue
  via,                  \* two buses: per bus the (event, handler) pairs registered through it
  bus,                  \* two buses: the bus the last top-level call was made on
  pc,                   \* drain loop followed step by step: the processor of the running
                        \* drain ("idle" when none runs), what the handlers do in it
                        \* and the number of iterations it has made
  adapter               \* adapter transport (Redis, BroadcastChannel) and its last
                        \* inbound message; NoAdapter where the bus runs in memory

vars == <<listeners, unsubscribeFunctions, queue, nextWrapper, ncalls, budget,
          usedEvents, usedHandlers, issued, stale, closes, gone, onceHist, last, calls,
          pubs, procs, clears, drains, enqs, tops, errors, raised, transports, buses,
          via, bus, pc, adapter>>

\* ------------------------------------------------------- JavaScript Map/Set
\* A Map is a function on the set of its keys; a Set is a sequence without
\* repetition, in insertion order (the order Array.from and for..of follow).
EmptyMap == [x \in {} |-> <<>>]

MapHas(map, key) == key \in DOMAIN map

MapSet(map, key, value) ==
  [x \in (DOMAIN map) \cup {key} |-> IF x = key THEN value ELSE map[x]]

MapDelete(map, key) == [x \in (DOMAIN map) \ {key} |-> map[x]]

SetHas(set, x) == \E i \in 1..Len(set) : set[i] = x

SetAdd(set, x) == IF SetHas(set, x) THEN set ELSE Append(set, x)

SetDelete(set, x) == SelectSeq(set, LAMBDA y : y # x)

Range(seq) == {seq[i] : i \in 1..Len(seq)}

Max(a, b) == IF a > b THEN a ELSE b

\* Position of x in seq, 0 when it is not there.
Index(seq, x) == IF SetHas(seq, x) THEN CHOOSE i \in 1..Len(seq) : seq[i] = x ELSE 0

\* The handler function after h in HandlerOrder, the first one after the last.
Peer(h) == HandlerOrder[(Index(HandlerOrder, h) % Len(HandlerOrder)) + 1]

\* A handler reference as the transport sees it: a function the caller passed to
\* on() (id 0), or the wrappedHandler closure number id that once() built around fn.
Raw(h) == [fn |-> h, id |-> 0]

Wrapped(h, n) == [fn |-> h, id |-> n]

\* The state the operators work on, with the observations of the running call.
Machine ==
  [listeners |-> listeners, unsubscribeFunctions |-> unsubscribeFunctions,
   queue |-> queue, nextWrapper |-> nextWrapper,
   calls |-> <<>>, pubs |-> <<>>, procs |-> <<>>, clears |-> <<>>, tops |-> <<>>,
   onces |-> <<>>, drains |-> 0, enqs |-> <<>>, errors |-> 0]

Returned(m) == [m |-> m, ok |-> TRUE]

Thrown(m) == [m |-> m, ok |-> FALSE]

\* --------------------------------------------------- in-memory transport
\* subscribe without the creation of the event's Set when there is none.
subscribe_NoCreate(m, event, handler) ==
  IF MapHas(m.listeners, event)
  THEN [m EXCEPT !.listeners = MapSet(m.listeners, event, SetAdd(m.listeners[event], handler)),
                 !.tops = Append(@, "subscribe")]
  ELSE [m EXCEPT !.tops = Append(@, "subscribe")]

\* subscribe that moves a handler already in the Set behind the others.
subscribe_MoveToLast(m, event, handler) ==
  LET handlers == IF MapHas(m.listeners, event) THEN m.listeners[event] ELSE <<>>
  IN  [m EXCEPT !.listeners = MapSet(m.listeners, event,
                                     Append(SetDelete(handlers, handler), handler)),
                !.tops = Append(@, "subscribe")]

\* subscribe: adds the handler to the event's Set; returns the closure below.
subscribe(m, event, handler) ==
  LET handlers == IF MapHas(m.listeners, event) THEN m.listeners[event] ELSE <<>>
  IN  [m EXCEPT !.listeners = MapSet(m.listeners, event, SetAdd(handlers, handler)),
                !.tops = Append(@, "subscribe")]

\* The closure subscribe returns; it captures event and handler.
TransportUnsubscribe(event, handler) == [event |-> event, handler |-> handler]

\* The transport's unsubscribe closure without the removal of the emptied Set.
unsubscribe_transport_KeepEmpty(m, u) ==
  LET m1 == [m EXCEPT !.tops = Append(@, "unsubscribe")]
  IN  IF MapHas(m.listeners, u.event)
      THEN [m1 EXCEPT !.listeners =
              MapSet(m.listeners, u.event, SetDelete(m.listeners[u.event], u.handler))]
      ELSE m1

unsubscribe_transport(m, u) ==
  LET m1 == [m EXCEPT !.tops = Append(@, "unsubscribe")]
  IN  IF MapHas(m.listeners, u.event)
      THEN LET handlers == SetDelete(m.listeners[u.event], u.handler)
           IN  [m1 EXCEPT !.listeners =
                    IF Len(handlers) = 0
                    THEN MapDelete(m.listeners, u.event)
                    ELSE MapSet(m.listeners, u.event, handlers)]
      ELSE m1

close(m) == [m EXCEPT !.listeners = EmptyMap, !.tops = Append(@, "close")]

\* ------------------------------------------------------- bus: registry
\* String(event), on the string event names of the event map.
getEventKey(event) == event

\* on: subscribes at the transport and records the transport's unsubscribe
\* closure under (eventKey, handler), overwriting an entry already there.
on(m, event, handler) ==
  LET m1 == subscribe(m, event, handler)
      unsubscribe == TransportUnsubscribe(event, handler)
      eventKey == getEventKey(event)
      fns == m1.unsubscribeFunctions
      eventHandlers == IF MapHas(fns, eventKey) THEN fns[eventKey] ELSE EmptyMap
  IN  [m1 EXCEPT !.unsubscribeFunctions =
          MapSet(fns, eventKey, MapSet(eventHandlers, handler, unsubscribe))]

\* The Unsubscribe closure on returns; it captures unsubscribe, eventKey, handler.
OnUnsubscribe(event, handler) ==
  [unsubscribe |-> TransportUnsubscribe(event, handler),
   eventKey |-> getEventKey(event), handler |-> handler]

\* eventHandlers.delete(handler), then dropping the event's entry when it is empty.
DeleteHandler(fns, eventKey, handler) ==
  LET eventHandlers == MapDelete(fns[eventKey], handler)
  IN  IF DOMAIN eventHandlers = {}
      THEN MapDelete(fns, eventKey)
      ELSE MapSet(fns, eventKey, eventHandlers)

\* The closure without its first statement, unsubscribe().
unsubscribe_on_RegistryOnly(m, c) ==
  IF MapHas(m.unsubscribeFunctions, c.eventKey)
  THEN [m EXCEPT !.unsubscribeFunctions = DeleteHandler(@, c.eventKey, c.handler)]
  ELSE m

unsubscribe_on(m, c) ==
  LET m1 == unsubscribe_transport(m, c.unsubscribe)
  IN  IF MapHas(m1.unsubscribeFunctions, c.eventKey)
      THEN [m1 EXCEPT !.unsubscribeFunctions = DeleteHandler(@, c.eventKey, c.handler)]
      ELSE m1

\* once: registers a fresh wrappedHandler closure around handler; onces keeps
\* what the running call has wrapped.
once(m, event, handler) ==
  LET wrappedHandler == Wrapped(handler, m.nextWrapper)
  IN  [on(m, event, wrappedHandler) EXCEPT
         !.nextWrapper = @ + 1,
         !.onces = Append(@, [event |-> event, fn |-> handler, seen |-> FALSE,
                              early |-> FALSE, fired |-> 0])]

\* off that looks the handler up by the function it wraps instead of by reference.
off_ByFunction(m, event, handler) ==
  LET eventKey == getEventKey(event)
      fns == m.unsubscribeFunctions
      found == IF MapHas(fns, eventKey)
               THEN {k \in DOMAIN fns[eventKey] : k.fn = handler.fn}
               ELSE {}
  IN  IF found # {}
      THEN LET k == CHOOSE x \in found : TRUE
           IN  [unsubscribe_transport(m, fns[eventKey][k])
                  EXCEPT !.unsubscribeFunctions = DeleteHandler(fns, eventKey, k)]
      ELSE m

\* off without the call of the transport's unsubscribe closure.
off_RegistryOnly(m, event, handler) ==
  LET eventKey == getEventKey(event)
      fns == m.unsubscribeFunctions
  IN  IF MapHas(fns, eventKey) /\ MapHas(fns[eventKey], handler)
      THEN [m EXCEPT !.unsubscribeFunctions = DeleteHandler(fns, eventKey, handler)]
      ELSE m

\* off that also drops the queued items of the event.
off_DropsQueued(m, event, handler) ==
  LET eventKey == getEventKey(event)
      fns == m.unsubscribeFunctions
      m1 == [m EXCEPT !.queue = SelectSeq(@, LAMBDA item : item.event # event)]
  IN  IF MapHas(fns, eventKey) /\ MapHas(fns[eventKey], handler)
      THEN [unsubscribe_transport(m1, fns[eventKey][handler])
              EXCEPT !.unsubscribeFunctions = DeleteHandler(fns, eventKey, handler)]
      ELSE m1

off(m, event, handler) ==
  LET eventKey == getEventKey(event)
      fns == m.unsubscribeFunctions
  IN  IF MapHas(fns, eventKey) /\ MapHas(fns[eventKey], handler)
      THEN [unsubscribe_transport(m, fns[eventKey][handler])
              EXCEPT !.unsubscribeFunctions = DeleteHandler(fns, eventKey, handler)]
      ELSE m

\* bus.off(event, h) for each handler function h of hs.
RECURSIVE offEach(_, _, _)
offEach(m, event, hs) ==
  IF hs = {} THEN m
  ELSE LET h == CHOOSE x \in hs : TRUE
       IN  offEach(off(m, event, Raw(h)), event, hs \ {h})

RECURSIVE unsubscribeAll(_, _)
unsubscribeAll(m, us) ==
  IF us = {} THEN m
  ELSE LET u == CHOOSE x \in us : TRUE
       IN  unsubscribeAll(unsubscribe_transport(m, u), us \ {u})

\* clear without the calls into the transport (no unsubscribe, no close).
clear_RegistryOnly(m) ==
  [m EXCEPT !.queue = <<>>, !.clears = Append(@, Len(m.procs)),
            !.unsubscribeFunctions = EmptyMap]

clear(m) ==
  LET m1 == [m EXCEPT !.queue = <<>>, !.clears = Append(@, Len(m.procs))]
      fns == m.unsubscribeFunctions
      us == UNION {{fns[eventKey][h] : h \in DOMAIN fns[eventKey]} : eventKey \in DOMAIN fns}
      m2 == unsubscribeAll(m1, us)
  IN  close([m2 EXCEPT !.unsubscribeFunctions = EmptyMap])

\* enqueue with queue.unshift in place of queue.push.
enqueue_Unshift(m, event, payload) ==
  [m EXCEPT !.queue = <<[event |-> event, payload |-> payload]>> \o @,
            !.enqs = Append(@, [event |-> event, payload |-> payload,
                                after |-> Len(m.procs)])]

enqueue(m, event, payload) ==
  [m EXCEPT !.queue = Append(@, [event |-> event, payload |-> payload]),
            !.enqs = Append(@, [event |-> event, payload |-> payload,
                                after |-> Len(m.procs)])]

\* ------------------------------------------------------- bus: dispatch
\* B maps each handler function to what it does in this top-level call; src
\* names the caller of emit: "api", "drain" (the default processor), "handler",
\* "processor". publish is an async function: a raise inside it rejects the
\* promise it returns (ok = FALSE) and never reaches publish's caller. A
\* publish records in by the handler invocation that called emit (its place
\* in calls), 0 when no handler did.
RECURSIVE publish(_, _, _, _, _), forEachHandler(_, _, _, _, _, _, _),
          callHandler(_, _, _, _, _, _), handler(_, _, _, _, _, _), emit(_, _, _, _, _),
          drain(_, _, _)

\* An EventHandler the caller supplied, invoked as key by publish number pub.
handler(m, key, event, payload, pub, B) ==
  LET m1 == [m EXCEPT !.calls = Append(@, [key |-> key, event |-> event,
                                           payload |-> payload, pub |-> pub])]
      b == B[key.fn]
  IN  CASE b = "return" -> Returned(m1)
        [] b = "throw" -> Thrown(m1)
        [] b = "off" -> Returned(off(m1, event, Raw(key.fn)))
        [] b = "offAll" -> Returned(offEach(m1, event, Handlers \ {key.fn}))
        [] b = "emit" -> IF payload + 1 \in Payloads
                         THEN Returned(emit(m1, event, payload + 1, B, "handler"))
                         ELSE Returned(m1)
        [] b = "enqueue" -> IF payload + 1 \in Payloads
                            THEN Returned(enqueue(m1, event, payload + 1))
                            ELSE Returned(m1)
        [] b = "clear" -> Returned(clear(m1))
        [] b = "on" -> Returned(on(m1, event, Raw(Peer(key.fn))))
        [] b = "once" -> Returned(once(m1, event, Peer(key.fn)))
        [] b = "drain" -> Returned(drain(m1, "default", B).m)

\* once's wrappedHandler: handler(payload); if (unsubscribe) unsubscribe().
wrappedHandler(m, key, event, payload, pub, B) ==
  LET r == handler(m, key, event, payload, pub, B)
  IN  IF r.ok THEN Returned(unsubscribe_on(r.m, OnUnsubscribe(event, key))) ELSE r

callHandler(m, key, event, payload, pub, B) ==
  IF key.id = 0
  THEN handler(m, key, event, payload, pub, B)
  ELSE wrappedHandler(m, key, event, payload, pub, B)

\* for (const handler of handlersCopy) handler(payload), from index i on; the
\* publish is done when the loop has gone through.
forEachHandler(m, handlersCopy, i, event, payload, pub, B) ==
  IF i > Len(handlersCopy) THEN Returned([m EXCEPT !.pubs[pub].done = TRUE])
  ELSE LET r == callHandler(m, handlersCopy[i], event, payload, pub, B)
       IN  IF r.ok
           THEN forEachHandler(r.m, handlersCopy, i + 1, event, payload, pub, B)
           ELSE r

\* publish on a transport that keeps one listener list for all events.
publish_AllEvents(m, event, payload, B, src) ==
  LET RECURSIVE listenersOf(_)
      listenersOf(evs) ==
        IF evs = {} THEN <<>>
        ELSE LET e == CHOOSE x \in evs : TRUE
             IN  m.listeners[e] \o listenersOf(evs \ {e})
      handlersCopy == listenersOf(DOMAIN m.listeners)
      pub == Len(m.pubs) + 1
      m1 == [m EXCEPT !.tops = Append(@, "publish"),
                      !.pubs = Append(@, [event |-> event, payload |-> payload,
                                          handlersCopy |-> handlersCopy, src |-> src,
                                          by |-> IF src = "handler" THEN Len(m.calls)
                                                 ELSE 0,
                                          done |-> FALSE])]
  IN  forEachHandler(m1, handlersCopy, 1, event, payload, pub, B)

publish(m, event, payload, B, src) ==
  LET handlersCopy == IF MapHas(m.listeners, event) THEN m.listeners[event] ELSE <<>>
      pub == Len(m.pubs) + 1
      m1 == [m EXCEPT !.tops = Append(@, "publish"),
                      !.pubs = Append(@, [event |-> event, payload |-> payload,
                                          handlersCopy |-> handlersCopy, src |-> src,
                                          by |-> IF src = "handler" THEN Len(m.calls)
                                                 ELSE 0,
                                          done |-> FALSE])]
  IN  forEachHandler(m1, handlersCopy, 1, event, payload, pub, B)

\* emit without the catch handler on the promise of publish.
emit_NoCatch(m, event, payload, B, src) == publish(m, event, payload, B, src).m

\* emit: transport.publish(event, payload).catch(error => console.error(...)).
emit(m, event, payload, B, src) ==
  LET r == publish(m, event, payload, B, src)
  IN  IF r.ok THEN r.m ELSE [r.m EXCEPT !.errors = @ + 1]

\* ------------------------------------------------------- bus: queue
\* A processor slot that falls back to the default emission.
processor_Default(m, event, payload, P, B) ==
  Returned(emit(m, event, payload, B, "drain"))

\* A custom processor the caller passed to drain.
processor(m, event, payload, P, B) ==
  CASE P = "return" -> Returned(m)
    [] P = "throw" -> Thrown(m)
    [] P = "throw2" -> IF payload = 2 THEN Thrown(m) ELSE Returned(m)
    [] P = "emit" -> Returned(emit(m, event, payload, B, "processor"))
    [] P = "enqueue" -> IF payload + 1 \in Payloads
                        THEN Returned(enqueue(m, event, payload + 1))
                        ELSE Returned(m)
    [] P = "clear" -> Returned(clear(m))
    [] P = "drain" -> Returned(drain(m, "default", B).m)

\* The default processor on an emit that hands a raise of a handler on to
\* its caller.
defaultProcessor_Propagates(m, event, payload, B) ==
  publish(m, event, payload, B, "drain")

defaultProcessor(m, event, payload, B) == Returned(emit(m, event, payload, B, "drain"))

RECURSIVE drainLoop(_, _, _)

\* The loop that reads queue[0], calls the processor and only then calls
\* queue.shift(): an item whose processor raises stays at the head.
drainLoop_ShiftAfter(m, P, B) ==
  IF Len(m.queue) > 0
  THEN LET item == Head(m.queue)
           m1 == [m EXCEPT !.procs = Append(@, [event |-> item.event,
                                                payload |-> item.payload])]
           r == IF P = "default"
                THEN defaultProcessor(m1, item.event, item.payload, B)
                ELSE processor(m1, item.event, item.payload, P, B)
       IN  IF r.ok
           THEN drainLoop([r.m EXCEPT !.queue = IF @ = <<>> THEN @ ELSE Tail(@)], P, B)
           ELSE r
  ELSE Returned(m)

\* The loop with a second queue.shift() in its body: the item after the one
\* that is processed is dropped.
drainLoop_ShiftTwice(m, P, B) ==
  IF Len(m.queue) > 0
  THEN LET item == Head(m.queue)
           m1 == [m EXCEPT !.queue = IF Len(@) > 1 THEN Tail(Tail(@)) ELSE Tail(@),
                           !.procs = Append(@, [event |-> item.event,
                                                payload |-> item.payload])]
           r == IF P = "default"
                THEN defaultProcessor(m1, item.event, item.payload, B)
                ELSE processor(m1, item.event, item.payload, P, B)
       IN  IF r.ok THEN drainLoop(r.m, P, B) ELSE r
  ELSE Returned(m)

\* The loop with queue.pop in place of queue.shift.
drainLoop_Pop(m, P, B) ==
  IF Len(m.queue) > 0
  THEN LET item == m.queue[Len(m.queue)]
           m1 == [m EXCEPT !.queue = SubSeq(@, 1, Len(@) - 1),
                           !.procs = Append(@, [event |-> item.event,
                                                payload |-> item.payload])]
           r == IF P = "default"
                THEN defaultProcessor(m1, item.event, item.payload, B)
                ELSE processor(m1, item.event, item.payload, P, B)
       IN  IF r.ok THEN drainLoop(r.m, P, B) ELSE r
  ELSE Returned(m)

\* The loop with the test queue.length > 1.
drainLoop_LeavesLast(m, P, B) ==
  IF Len(m.queue) > 1
  THEN LET item == Head(m.queue)
           m1 == [m EXCEPT !.queue = Tail(@),
                           !.procs = Append(@, [event |-> item.event,
                                                payload |-> item.payload])]
           r == IF P = "default"
                THEN defaultProcessor(m1, item.event, item.payload, B)
                ELSE processor(m1, item.event, item.payload, P, B)
       IN  IF r.ok THEN drainLoop(r.m, P, B) ELSE r
  ELSE Returned(m)

\* The loop as an if: one item is taken and processed.
drainLoop_Once(m, P, B) ==
  IF Len(m.queue) > 0
  THEN LET item == Head(m.queue)
           m1 == [m EXCEPT !.queue = Tail(@),
                           !.procs = Append(@, [event |-> item.event,
                                                payload |-> item.payload])]
       IN  IF P = "default"
           THEN defaultProcessor(m1, item.event, item.payload, B)
           ELSE processor(m1, item.event, item.payload, P, B)
  ELSE Returned(m)

\* while (queue.length > 0) { const item = queue.shift(); proc(item.event, item.payload); }
\* P = "default" stands for a drain() call without a processor.
drainLoop(m, P, B) ==
  IF Len(m.queue) > 0
  THEN LET item == Head(m.queue)
           m1 == [m EXCEPT !.queue = Tail(@),
                           !.procs = Append(@, [event |-> item.event,
                                                payload |-> item.payload])]
           r == IF P = "default"
                THEN defaultProcessor(m1, item.event, item.payload, B)
                ELSE processor(m1, item.event, item.payload, P, B)
       IN  IF r.ok THEN drainLoop(r.m, P, B) ELSE r
  ELSE Returned(m)

drain(m, P, B) == drainLoop([m EXCEPT !.drains = @ + 1], P, B)

\* ------------------------------------------------------------ actions
NoKey == [fn |-> "-", id |-> 0]

\* A top-level call: op(event, key, payload); proc is "default" or "custom" for
\* a drain without or with a processor.
Call(op, event, key, payload, proc) ==
  [op |-> op, event |-> event, key |-> key, payload |-> payload, proc |-> proc]

IsRegistered(event, key) ==
  /\ MapHas(unsubscribeFunctions, getEventKey(event))
  /\ MapHas(unsubscribeFunctions[getEventKey(event)], key)

\* The transport's subscribers of event, in dispatch order.
Subscribers(event) == IF MapHas(listeners, event) THEN listeners[event] ELSE <<>>

QueuedEvents == {queue[i].event : i \in 1..Len(queue)}

\* What the handlers do during one top-level call that dispatches events of
\* evs only; a handler that no subscription for them reaches is never invoked,
\* so its behaviour is left at "return".
BehaviourChoices(evs) ==
  LET reached == {k.fn : k \in UNION {Range(Subscribers(e)) : e \in evs}}
  IN  {B \in [Handlers -> Behaviours] : \A h \in Handlers \ reached : B[h] = "return"}

\* onceHist after a call that left the observations of m.
Observe(hist, m) ==
  [n \in DOMAIN hist |->
     [hist[n] EXCEPT
        !.seen = @ \/ \E j \in 1..Len(m.pubs) : m.pubs[j].event = hist[n].event,
        !.fired = @ + Cardinality({i \in 1..Len(m.calls) : m.calls[i].key.id = n})]]

\* The call is the next of the run and names events and handlers in order of use.
Allowed(event, h) ==
  /\ ncalls < budget
  /\ Index(EventOrder, event) <= usedEvents + 1
  /\ Index(HandlerOrder, h) <= usedHandlers + 1

Commit(r, call, hist) ==
  /\ listeners' = r.m.listeners
  /\ unsubscribeFunctions' = r.m.unsubscribeFunctions
  /\ queue' = r.m.queue
  /\ nextWrapper' = r.m.nextWrapper
  /\ calls' = r.m.calls
  /\ pubs' = r.m.pubs
  /\ procs' = r.m.procs
  /\ clears' = r.m.clears
  /\ drains' = r.m.drains
  /\ enqs' = r.m.enqs
  /\ tops' = r.m.tops
  /\ errors' = r.m.errors
  /\ raised' = ~r.ok
  /\ onceHist' = Observe(hist \o r.m.onces, r.m)
  /\ last' = call
  /\ ncalls' = ncalls + 1
  /\ closes' = closes + Len(SelectSeq(r.m.tops, LAMBDA t : t = "close"))
  /\ budget' = budget
  /\ usedEvents' = Max(usedEvents, Index(EventOrder, call.event))
  /\ usedHandlers' = Max(usedHandlers, Index(HandlerOrder, call.key.fn))
  /\ UNCHANGED <<transports, buses, via, bus, pc, adapter>>

\* No drain call is running.
Idle == [P |-> "idle", B |-> [h \in Handlers |-> "return"], i |-> 0]

\* No adapter transport: the bus uses the in-memory transport.
NoAdapter == [kind |-> "memory"]

Fresh(n) ==
  /\ listeners = EmptyMap
  /\ unsubscribeFunctions = EmptyMap
  /\ queue = <<>>
  /\ nextWrapper = 1
  /\ ncalls = 0
  /\ budget = n
  /\ usedEvents = 0
  /\ usedHandlers = 0
  /\ issued = {}
  /\ stale = {}
  /\ closes = 0
  /\ gone = {}
  /\ onceHist = <<>>
  /\ last = Call("init", "-", NoKey, 0, "-")
  /\ calls = <<>>
  /\ pubs = <<>>
  /\ procs = <<>>
  /\ clears = <<>>
  /\ drains = 0
  /\ enqs = <<>>
  /\ tops = <<>>
  /\ errors = 0
  /\ raised = FALSE
  /\ pc = Idle

\* One bus: the state of createRouteBus is in listeners, unsubscribeFunctions
\* and queue, and no other bus exists.
Start(n) ==
  /\ Fresh(n)
  /\ transports = <<>>
  /\ buses = <<>>
  /\ via = <<>>
  /\ bus = 0
  /\ adapter = NoAdapter

\* createRouteBus() without a transport option.
Init == Start(MaxCalls)

\* bus.on(event, h); the caller keeps the function it returns.
On(event, h) ==
  /\ Allowed(event, h)
  /\ Commit(Returned(on(Machine, event, Raw(h))),
            Call("on", event, Raw(h), 0, "-"), onceHist)
  /\ issued' = issued \cup {<<event, h>>}
  /\ gone' = gone \ {<<event, h>>}
  /\ stale' = stale

\* bus.once(event, h); the caller keeps the function it returns.
Once(event, h) ==
  /\ Allowed(event, h)
  /\ Commit(Returned(once(Machine, event, h)),
            Call("once", event, Wrapped(h, nextWrapper), 0, "-"), onceHist)
  /\ UNCHANGED <<issued, stale, gone>>

\* bus.off(event, h)
Off(event, h) ==
  /\ Allowed(event, h)
  /\ Commit(Returned(off(Machine, event, Raw(h))),
            Call("off", event, Raw(h), 0, "-"), onceHist)
  /\ gone' = IF <<event, h>> \in issued THEN gone \cup {<<event, h>>} ELSE gone
  /\ UNCHANGED <<issued, stale>>

\* The caller invokes a function that on(event, h) returned.
Unsubscribe(event, h) ==
  /\ Allowed(event, h)
  /\ <<event, h>> \in issued
  /\ Commit(Returned(unsubscribe_on(Machine, OnUnsubscribe(event, Raw(h)))),
            Call("unsubscribe", event, Raw(h), 0, "-"), onceHist)
  /\ stale' = stale \cup {<<event, h>>}
  /\ gone' = gone \cup {<<event, h>>}
  /\ issued' = issued

\* The caller invokes the function that the n-th once call returned; early
\* records that it did so before any emit of the event.
UnsubscribeOnce(n) ==
  /\ ncalls < budget
  /\ LET event == onceHist[n].event
         key == Wrapped(onceHist[n].fn, n)
     IN  Commit(Returned(unsubscribe_on(Machine, OnUnsubscribe(event, key))),
                Call("unsubscribe", event, key, 0, "-"),
                [onceHist EXCEPT ![n].early = @ \/ ~onceHist[n].seen])
  /\ UNCHANGED <<issued, stale, gone>>

\* bus.emit(event, payload)
Emit(event, payload) ==
  /\ Allowed(event, "-")
  /\ \E B \in BehaviourChoices({event}) :
       Commit(Returned(emit(Machine, event, payload, B, "api")),
              Call("emit", event, NoKey, payload, "-"), onceHist)
  /\ UNCHANGED <<issued, stale, gone>>

\* bus.enqueue(event, payload)
Enqueue(event, payload) ==
  /\ Allowed(event, "-")
  /\ Commit(Returned(enqueue(Machine, event, payload)),
            Call("enqueue", event, NoKey, payload, "-"), onceHist)
  /\ UNCHANGED <<issued, stale, gone>>

\* bus.drain()
Drain ==
  /\ ncalls < budget
  /\ \E B \in BehaviourChoices(QueuedEvents) :
       Commit(drain(Machine, "default", B),
              Call("drain", "-", NoKey, 0, "default"), onceHist)
  /\ UNCHANGED <<issued, stale, gone>>

\* bus.drain(processor)
DrainWith(P) ==
  /\ ncalls < budget
  /\ \E B \in BehaviourChoices(IF P = "emit" THEN QueuedEvents ELSE {}) :
       Commit(drain(Machine, P, B),
              Call("drain", "-", NoKey, 0, "custom"), onceHist)
  /\ UNCHANGED <<issued, stale, gone>>

\* bus.clear()
Clear ==
  /\ ncalls < budget
  /\ Commit(Returned(clear(Machine)),
            Call("clear", "-", NoKey, 0, "-"), onceHist)
  /\ UNCHANGED <<issued, stale, gone>>

\* What the handlers do during a call that dispatches events of evs and in
\* which they may re-enter the bus. A handler is reached through a
\* subscription for evs or for a queued event (a handler may drain the queue),
\* or through a registration another handler makes during the call; the
\* behaviour of one that is not reached is left at "return".
NestedChoices(evs) ==
  LET reached == {k.fn : k \in UNION {Range(Subscribers(e)) : e \in evs \cup QueuedEvents}}
  IN  {B \in [Handlers -> NestedBehaviours] :
         \A h \in Handlers \ reached :
           B[h] # "return" => \E g \in Handlers : B[g] \in {"on", "once"} /\ Peer(g) = h}

\* bus.emit(event, payload) to handlers that may re-enter the bus
EmitNested(event, payload) ==
  /\ Allowed(event, "-")
  /\ \E B \in NestedChoices({event}) :
       Commit(Returned(emit(Machine, event, payload, B, "api")),
              Call("emit", event, NoKey, payload, "-"), onceHist)
  /\ UNCHANGED <<issued, stale, gone>>

\* bus.drain() when P is "default", bus.drain(processor) otherwise, with
\* handlers and a processor that may re-enter the bus
DrainNested(P) ==
  /\ ncalls < budget
  /\ \E B \in NestedChoices(IF P \in {"default", "emit", "drain"}
                            THEN QueuedEvents ELSE {}) :
       Commit(drain(Machine, P, B),
              Call("drain", "-", NoKey, 0, IF P = "default" THEN P ELSE "custom"),
              onceHist)
  /\ UNCHANGED <<issued, stale, gone>>

Next ==
  \/ \E event \in Events, h \in Handlers : On(event, h)
  \/ \E event \in Events, h \in Handlers : Once(event, h)
  \/ \E event \in Events, h \in Handlers : Off(event, h)
  \/ \E event \in Events, h \in Handlers : Unsubscribe(event, h)
  \/ \E n \in DOMAIN onceHist : UnsubscribeOnce(n)
  \/ \E event \in Events, payload \in Payloads : Emit(event, payload)
  \/ \E event \in Events, payload \in Payloads : Enqueue(event, payload)
  \/ Drain
  \/ \E P \in ProcessorBehaviours : DrainWith(P)
  \/ Clear

Spec == Init /\ [][Next]_vars

\* The bus with handlers and processors that re-enter it; the caller's emit
\* and enqueue carry the first payload, the handlers they reach may emit or
\* enqueue the next.
NextNested ==
  \/ \E event \in Events, h \in Handlers : On(event, h)
  \/ \E event \in Events : EmitNested(event, 1)
  \/ \E event \in Events : Enqueue(event, 1)
  \/ \E P \in {"default"} \cup NestedProcessorBehaviours : DrainNested(P)

SpecNested == Init /\ [][NextNested]_vars

\* The same bus, followed for one more top-level call.
InitDeep == Start(MaxCalls + 1)

\* The calls that register, unregister and dispatch.
NextDeep ==
  \/ \E event \in Events, h \in Handlers : On(event, h)
  \/ \E event \in Events, h \in Handlers : Once(event, h)
  \/ \E event \in Events, h \in Handlers : Off(event, h)
  \/ \E event \in Events, h \in Handlers : Unsubscribe(event, h)
  \/ \E n \in DOMAIN onceHist : UnsubscribeOnce(n)
  \/ \E event \in Events, payload \in Payloads : Emit(event, payload)

SpecDeep == InitDeep /\ [][NextDeep]_vars

\* ------------------------------------------------------------ dispatch
\* The invocations publish number pub made, in order.
CallsOf(cs, pub) == SelectSeq(cs, LAMBDA c : c.pub = pub)

\* One invocation of each of handlers in order, with payload, by publish pub.
EachOnce(handlers, event, payload, pub) ==
  [i \in 1..Len(handlers) |->
     [key |-> handlers[i], event |-> event, payload |-> payload, pub |-> pub]]

\* C1: emit(E, P) invokes, before it returns, every handler that is
\* registered for E at the moment of the call, exactly once each, in
\* registration order, each with exactly P.
C1_EmitInvokesEachSubscriberOnce ==
  [][last'.op = "emit" =>
       CallsOf(calls', 1) = EachOnce(Subscribers(last'.event), last'.event,
                                     last'.payload, 1)]_vars

\* C2: after the caller has unsubscribed h from E (with the function on
\* returned or with off), an emit of E invokes h no more until h is
\* registered again, and invokes every other handler registered for E.
C2_UnsubscribedSilentOthersInvoked ==
  [][last'.op = "emit" =>
       LET E == last'.event
       IN  /\ \A h \in Handlers :
                <<E, h>> \in gone =>
                  \A i \in 1..Len(calls') :
                    ~(calls'[i].event = E /\ calls'[i].key = Raw(h))
           /\ (\E h \in Handlers : <<E, h>> \in gone) =>
                \A k \in Range(Subscribers(E)) :
                  \E i \in 1..Len(calls') : calls'[i].key = k /\ calls'[i].pub = 1]_vars

\* C3: a handler registered with once(E, h) is invoked at most one time.
C3_OnceFiresAtMostOnce == \A n \in DOMAIN onceHist : onceHist[n].fired <= 1

\* C4: when the function once(E, h) returned is invoked before any emit of E,
\* no later emit or drain invokes h through that registration.
C4_OnceCancelledEarlyNeverFires ==
  \A n \in DOMAIN onceHist : onceHist[n].early => onceHist[n].fired = 0

\* An emit of E has gone through after the once registration for E was
\* cancelled early, and has invoked another handler of E.
C4_Witness ==
  \E n \in DOMAIN onceHist :
    /\ onceHist[n].early
    /\ last.op = "emit"
    /\ last.event = onceHist[n].event
    /\ Len(calls) > 0

\* C5: invoking the function on(E, h) returned a second or later time raises
\* no error and leaves the registry and the subscriber sets unchanged.
C5_UnsubscribeIdempotent ==
  [][(/\ last'.op = "unsubscribe"
      /\ last'.key.id = 0
      /\ <<last'.event, last'.key.fn>> \in stale) =>
       (/\ ~raised'
        /\ unsubscribeFunctions' = unsubscribeFunctions
        /\ listeners' = listeners)]_vars

\* C6: off(E, h) for a pair that is not in the registry raises no error and
\* leaves the registry, the subscriber sets and the queue unchanged.
C6_OffUnregisteredIsNoOp ==
  [][(last'.op = "off" /\ ~IsRegistered(last'.event, last'.key)) =>
       (/\ ~raised'
        /\ unsubscribeFunctions' = unsubscribeFunctions
        /\ listeners' = listeners
        /\ queue' = queue)]_vars

\* off(E, h) was called while h was registered for another event only, with
\* a once registration of h for E in place and an item in the queue.
C6_Witness ==
  /\ last.op = "off"
  /\ tops = <<>>
  /\ \E e \in Events \ {last.event} : IsRegistered(e, last.key)
  /\ \E k \in Range(Subscribers(last.event)) : k.fn = last.key.fn

\* C7: enqueue(E, P) appends (E, P) at the tail of the queue and does nothing
\* else: no handler is invoked, no transport operation is called, the
\* registry and the subscriber sets stay as they are.
C7_EnqueueOnlyAppends ==
  [][last'.op = "enqueue" =>
       (/\ queue' = Append(queue, [event |-> last'.event, payload |-> last'.payload])
        /\ calls' = <<>>
        /\ pubs' = <<>>
        /\ tops' = <<>>
        /\ errors' = 0
        /\ ~raised'
        /\ unsubscribeFunctions' = unsubscribeFunctions
        /\ listeners' = listeners)]_vars

\* An item was enqueued behind another one, for an event that has a subscriber.
C7_Witness ==
  /\ last.op = "enqueue"
  /\ Len(queue) >= 2
  /\ queue[Len(queue)].event = last.event
  /\ Subscribers(last.event) # <<>>

\* ------------------------------------------------------------ queue
\* The (event, payload) items of the publish calls that src made, in order.
Published(ps, src) ==
  LET own == SelectSeq(ps, LAMBDA p : p.src = src)
  IN  [i \in 1..Len(own) |-> [event |-> own[i].event, payload |-> own[i].payload]]

\* The first n of items are the first items of q, in the order of q.
SameOrder(items, q, n) ==
  \A i \in 1..n : (i <= Len(items) /\ i <= Len(q)) => items[i] = q[i]

\* How many items the drain of this step hands out before a clear() is called,
\* all of them when there is none.
BeforeClear == IF clears' = <<>> THEN Len(procs') ELSE clears'[1]

\* bus.emit(event, payload) for each of items from the i-th on, in order.
RECURSIVE emitEach(_, _, _, _)
emitEach(m, items, i, B) ==
  IF i > Len(items) THEN m
  ELSE emitEach(emit(m, items[i].event, items[i].payload, B, "drain"), items, i + 1, B)

\* The step is a drain() call during which the handlers behave as B says.
IsDrain(B) ==
  LET r == drain(Machine, "default", B)
  IN  /\ r.m.listeners = listeners'
      /\ r.m.unsubscribeFunctions = unsubscribeFunctions'
      /\ r.m.queue = queue'
      /\ r.m.calls = calls'
      /\ r.m.pubs = pubs'

\* What C8 says of the order: the items drain() emits are the items it took
\* from the queue, the first n of them come in the order of the queue, and the
\* handler invocations are those of calling emit on each of them in that order.
FifoDrain(n) ==
  /\ ~raised'
  /\ Published(pubs', "drain") = procs'
  /\ SameOrder(procs', queue, n)
  /\ \A B \in BehaviourChoices(QueuedEvents) :
       IsDrain(B) => emitEach(Machine, procs', 1, B).calls = calls'

\* C8 as stated: drain() with no processor emits the queued items in exactly
\* the order they were enqueued, as one FIFO sequence across all event names,
\* so that the handler invocations are those of emit on each item in turn.
C8_DrainEmitsQueueInOrder ==
  [][(last'.op = "drain" /\ last'.proc = "default") =>
       (FifoDrain(Len(queue)) /\ Len(procs') >= Len(queue))]_vars

\* C8 amended: drain() emits the items it takes from the queue in the order
\* of the queue, every queued item unless a handler calls clear() during the
\* drain, which discards the items still queued at that moment; the handler
\* invocations are those of emit on each item in turn as long as no handler
\* calls drain() during the drain.
C8_DrainEmitsQueueInOrderUnlessCleared ==
  [][(last'.op = "drain" /\ last'.proc = "default") =>
       (/\ ~raised'
        /\ Published(pubs', "drain") = procs'
        /\ SameOrder(procs', queue, BeforeClear)
        /\ drains' = 1 => FifoDrain(BeforeClear)
        /\ clears' = <<>> => Len(procs') >= Len(queue))]_vars

\* drain() has emitted two items of different events, the first of them to a
\* handler.
C8_Witness ==
  /\ last.op = "drain"
  /\ last.proc = "default"
  /\ Len(procs) >= 2
  /\ procs[1].event # procs[2].event
  /\ Len(calls) > 0
  /\ calls[1].event = procs[1].event

\* What C9 says apart from the number of items: the processor gets the first
\* n items in the order of the queue, drain emits nothing itself, and no
\* handler is invoked unless the processor calls emit.
CustomDrain(n) ==
  /\ SameOrder(procs', queue, n)
  /\ Published(pubs', "drain") = <<>>
  /\ Published(pubs', "processor") = <<>> => (pubs' = <<>> /\ calls' = <<>>)

\* C9 as stated: drain(customProcessor) invokes the processor exactly once per
\* queued item, in enqueue order, and performs no emission of its own.
C9_CustomProcessorGetsEveryItem ==
  [][(last'.op = "drain" /\ last'.proc = "custom") =>
       (CustomDrain(Len(queue)) /\ Len(procs') >= Len(queue))]_vars

\* C9 amended: as C9, for every queued item unless the processor raises (the
\* drain stops there) or clear() is called during the drain, and as long as
\* drain is not called again during the drain (a drain() called from the
\* processor hands the items still queued to its own processor).
C9_CustomProcessorGetsEveryItemUnlessStopped ==
  [][(last'.op = "drain" /\ last'.proc = "custom") =>
       (/\ SameOrder(procs', queue, BeforeClear)
        /\ drains' = 1 => CustomDrain(BeforeClear)
        /\ (~raised' /\ clears' = <<>> /\ drains' = 1) => Len(procs') >= Len(queue))]_vars

\* A custom processor that does not emit has been handed two items while a
\* handler was subscribed to the event of the first one.
C9_Witness ==
  /\ last.op = "drain"
  /\ last.proc = "custom"
  /\ ~raised
  /\ Len(procs) >= 2
  /\ pubs = <<>>
  /\ Subscribers(procs[1].event) # <<>>

\* C10: a drain that returns normally leaves the queue empty; a drain on an
\* empty queue invokes no processor and no handler; that drain, and an emit
\* of an event without subscriber, raise no error and leave the registry, the
\* subscriber sets and the queue unchanged.
C10_EmptyDrainAndEmitAreNoOps ==
  [][/\ (last'.op = "drain" /\ ~raised') => queue' = <<>>
     /\ (\/ last'.op = "drain" /\ queue = <<>>
         \/ last'.op = "emit" /\ Subscribers(last'.event) = <<>>) =>
          (/\ procs' = <<>>
           /\ calls' = <<>>
           /\ ~raised'
           /\ errors' = 0
           /\ unsubscribeFunctions' = unsubscribeFunctions
           /\ listeners' = listeners
           /\ queue' = queue)]_vars

\* A drain found the queue empty on a bus that has subscribers.
C10_Witness ==
  /\ last.op = "drain"
  /\ procs = <<>>
  /\ queue = <<>>
  /\ listeners # EmptyMap

\* ------------------------------------------------------------ clear
\* C11: after clear() the registry is empty, the transport holds no
\* subscriber and the queue is empty; an emit right after it invokes no
\* handler, a drain right after it processes nothing, and a clear right after
\* it raises no error and changes nothing.
C11_ClearEmptiesBus ==
  [][/\ last'.op = "clear" =>
          (/\ ~raised'
           /\ unsubscribeFunctions' = EmptyMap
           /\ listeners' = EmptyMap
           /\ queue' = <<>>)
     /\ (last.op = "clear" /\ last'.op \in {"emit", "drain", "clear"}) =>
          (/\ ~raised'
           /\ errors' = 0
           /\ calls' = <<>>
           /\ procs' = <<>>
           /\ unsubscribeFunctions' = unsubscribeFunctions
           /\ listeners' = listeners
           /\ queue' = queue)]_vars

\* An emit found no subscriber on a bus that had a registration before it
\* was cleared.
C11_Witness ==
  /\ last.op = "emit"
  /\ closes > 0
  /\ issued # {}
  /\ listeners = EmptyMap

\* C12: over the lifetime of a bus the transport's close operation is invoked
\* at most once, however many times clear() is called.
C12_CloseAtMostOnce == closes <= 1

\* ------------------------------------------------------------ snapshot
\* C13: in a dispatch of emit(E, P) during which a handler unsubscribes
\* itself or another handler of E, every handler that was registered when the
\* dispatch began is invoked once (also one removed by an earlier handler),
\* and a handler removed before the dispatch began is not invoked.
C13_UnsubscribeDuringDispatch ==
  [][(last'.op = "emit" /\ "unsubscribe" \in Range(tops')) =>
       LET E == last'.event
       IN  /\ CallsOf(calls', 1) = EachOnce(Subscribers(E), E, last'.payload, 1)
           /\ \A h \in Handlers :
                <<E, h>> \in gone =>
                  \A i \in 1..Len(calls') : calls'[i].key # Raw(h)]_vars

\* ------------------------------------------------------------ errors
\* C14: emit(E, P) never raises into its caller; when a handler raises during
\* the dispatch, publish fails and the failure is reported out of band, once
\* for each publish that failed.
C14_EmitNeverRaises ==
  [][/\ last'.op = "emit" => ~raised'
     /\ errors' = Cardinality({j \in 1..Len(pubs') : ~pubs'[j].done})]_vars

\* An emit during which a handler raised has returned.
C14_Witness ==
  /\ last.op = "emit"
  /\ ~pubs[1].done
  /\ errors > 0
  /\ ~raised

\* C15: when one handler for E raises during emit(E, P), every other handler
\* that was registered for E when the dispatch began is still invoked in
\* that dispatch.
C15_HandlersIsolated ==
  [][(last'.op = "emit" /\ ~pubs'[1].done) =>
       \A k \in Range(Subscribers(last'.event)) :
         \E i \in 1..Len(calls') : calls'[i].pub = 1 /\ calls'[i].key = k]_vars

\* ------------------------------------------------------------ registry
\* C16: there is at most one active subscription per (event, handler) pair:
\* however often on(E, h) was called for a handler that is registered, the
\* subscriber set holds h once and one emit(E, P) invokes h exactly once.
C16_OneSubscriptionPerPair ==
  [][/\ \A e \in DOMAIN listeners' :
          \A i, j \in 1..Len(listeners'[e]) :
            listeners'[e][i] = listeners'[e][j] => i = j
     /\ last'.op = "emit" =>
          \A h \in Handlers :
            SetHas(Subscribers(last'.event), Raw(h)) =>
              Cardinality({i \in 1..Len(calls') :
                             calls'[i].pub = 1 /\ calls'[i].key = Raw(h)}) = 1]_vars

\* items is the beginning of whole.
IsPrefix(items, whole) ==
  /\ Len(items) <= Len(whole)
  /\ \A i \in 1..Len(items) : items[i] = whole[i]

\* C17: after clear() the bus stays usable: on, once, off, emit, enqueue and
\* drain() raise no error, a handler registered after the clear is subscribed
\* and in the registry, and emits and drains dispatch to the subscribers the
\* way they do on a bus that was never cleared (from the snapshot, in order,
\* each item of the queue in turn).
C17_UsableAfterClear ==
  [][closes > 0 =>
       /\ (last'.proc # "custom") => ~raised'
       /\ last'.op \in {"on", "once"} =>
            (/\ MapHas(listeners', last'.event)
             /\ SetHas(listeners'[last'.event], last'.key)
             /\ MapHas(unsubscribeFunctions', getEventKey(last'.event))
             /\ MapHas(unsubscribeFunctions'[getEventKey(last'.event)], last'.key)
             /\ queue' = queue)
       /\ last'.op = "emit" =>
            LET snapshot == EachOnce(Subscribers(last'.event), last'.event,
                                     last'.payload, 1)
            IN  /\ IsPrefix(CallsOf(calls', 1), snapshot)
                /\ pubs'[1].done => CallsOf(calls', 1) = snapshot
       /\ last'.op = "enqueue" =>
            queue' = Append(queue, [event |-> last'.event, payload |-> last'.payload])
       /\ (last'.op = "drain" /\ last'.proc = "default") =>
            (/\ Published(pubs', "drain") = procs'
             /\ SameOrder(procs', queue, BeforeClear)
             /\ queue' = <<>>)]_vars

\* On a bus that was cleared in an earlier call, an emit has invoked a
\* handler.
C17_Witness ==
  /\ closes > 0
  /\ clears = <<>>
  /\ last.op = "emit"
  /\ Len(calls) > 0

\* ------------------------------------------------------------ once
\* The n-th once registration is in the subscriber sets ls or the registry fns.
OnceRegistered(ls, fns, n) ==
  LET event == onceHist[n].event
      key == Wrapped(onceHist[n].fn, n)
  IN  \/ MapHas(ls, event) /\ SetHas(ls[event], key)
      \/ MapHas(fns, getEventKey(event)) /\ MapHas(fns[getEventKey(event)], key)

\* C18: after a once handler has fired its registration is gone from the
\* registry and from the transport, and invoking the function once returned
\* changes nothing and raises no error.
C18_FiredOnceIsGone ==
  [][/\ \A n \in DOMAIN onceHist :
          onceHist'[n].fired > 0 => ~OnceRegistered(listeners', unsubscribeFunctions', n)
     /\ (/\ last'.op = "unsubscribe"
         /\ last'.key.id > 0
         /\ onceHist[last'.key.id].fired > 0) =>
          (/\ ~raised'
           /\ unsubscribeFunctions' = unsubscribeFunctions
           /\ listeners' = listeners)]_vars

\* ------------------------------------------------------------ routing
\* key was registered for event during the step: it is a subscriber of event
\* after it, or a once registration for event made in it.
RegisteredSince(event, key) ==
  \/ MapHas(listeners', event) /\ SetHas(listeners'[event], key)
  \/ /\ key.id > Len(onceHist)
     /\ key.id <= Len(onceHist')
     /\ onceHist'[key.id].event = event

\* C19: a publish of E invokes only handlers registered for E, with the
\* payload published: a handler registered only for another event is never
\* invoked by an emit or by a drained item of E.
C19_OnlyHandlersOfTheEvent ==
  [][/\ \A i \in 1..Len(calls') :
          /\ calls'[i].event = pubs'[calls'[i].pub].event
          /\ calls'[i].payload = pubs'[calls'[i].pub].payload
          /\ \/ SetHas(Subscribers(calls'[i].event), calls'[i].key)
             \/ RegisteredSince(calls'[i].event, calls'[i].key)
     /\ last'.op = "emit" =>
          (pubs'[1].event = last'.event /\ pubs'[1].payload = last'.payload)
     /\ last'.op = "drain" =>
          \A j \in 1..Len(pubs') :
            \E i \in 1..Len(procs') : procs'[i].event = pubs'[j].event]_vars

\* An emit has invoked a handler while another event had a subscriber too.
C19_Witness ==
  /\ last.op = "emit"
  /\ Len(calls) > 0
  /\ \E e \in Events \ {last.event} : Subscribers(e) # <<>>

\* ------------------------------------------------------------ two buses
\* createInMemoryTransport(): a transport without listener.
createInMemoryTransport == EmptyMap

\* createRouteBus where a bus without transport option falls back on one
\* default transport that all such buses share.
createRouteBus_SharedDefault(w, option) ==
  LET ts == IF w.transports = <<>> THEN <<createInMemoryTransport>> ELSE w.transports
  IN  [transports |-> ts,
       buses |-> Append(w.buses,
                        [transport |-> IF option = "none" THEN 1 ELSE option,
                         unsubscribeFunctions |-> EmptyMap,
                         queue |-> <<>>])]

\* createRouteBus(options) in a world w of transports and buses. The bus uses
\* options.transport when there is one (option is its place in w.transports)
\* and a transport it creates otherwise; its registry and its queue are new.
createRouteBus(w, option) ==
  LET ts == IF option = "none" THEN Append(w.transports, createInMemoryTransport)
            ELSE w.transports
  IN  [transports |-> ts,
       buses |-> Append(w.buses,
                        [transport |-> IF option = "none" THEN Len(ts) ELSE option,
                         unsubscribeFunctions |-> EmptyMap,
                         queue |-> <<>>])]

\* The state bus i works on: its transport's listeners, its registry, its queue.
BusMachine(i) ==
  [Machine EXCEPT !.listeners = transports[buses[i].transport],
                  !.unsubscribeFunctions = buses[i].unsubscribeFunctions,
                  !.queue = buses[i].queue]

\* The subscribers of event in the transport of bus i, in dispatch order.
BusSubscribers(i, event) ==
  LET ls == transports[buses[i].transport]
  IN  IF MapHas(ls, event) THEN ls[event] ELSE <<>>

BusQueuedEvents(i) == {buses[i].queue[n].event : n \in 1..Len(buses[i].queue)}

\* BehaviourChoices for a call of bus i; a handler acts on the bus that
\* invoked it.
BusBehaviourChoices(i, evs) ==
  LET reached == {k.fn : k \in UNION {Range(BusSubscribers(i, e)) : e \in evs}}
  IN  {B \in [Handlers -> Behaviours] : \A h \in Handlers \ reached : B[h] = "return"}

\* The next call of the run may be made on bus i; the first is made on bus 1.
BusAllowed(i, event, h) ==
  /\ Allowed(event, h)
  /\ bus = 0 => i = 1

\* The call of bus i has had the outcome r and has registered the pairs of
\* registered through it.
BusCommit(i, r, call, registered) ==
  /\ transports' = [transports EXCEPT ![buses[i].transport] = r.m.listeners]
  /\ buses' = [buses EXCEPT ![i].unsubscribeFunctions = r.m.unsubscribeFunctions,
                            ![i].queue = r.m.queue]
  /\ nextWrapper' = r.m.nextWrapper
  /\ calls' = r.m.calls
  /\ pubs' = r.m.pubs
  /\ procs' = r.m.procs
  /\ clears' = r.m.clears
  /\ drains' = r.m.drains
  /\ enqs' = r.m.enqs
  /\ tops' = r.m.tops
  /\ errors' = r.m.errors
  /\ raised' = ~r.ok
  /\ last' = call
  /\ bus' = i
  /\ via' = [via EXCEPT ![i] = @ \cup registered]
  /\ ncalls' = ncalls + 1
  /\ usedEvents' = Max(usedEvents, Index(EventOrder, call.event))
  /\ usedHandlers' = Max(usedHandlers, Index(HandlerOrder, call.key.fn))
  /\ UNCHANGED <<listeners, unsubscribeFunctions, queue, budget, issued, stale,
                 closes, gone, onceHist, pc, adapter>>

\* Two buses, each created by createRouteBus() without a transport option.
InitTwo ==
  /\ Fresh(MaxCalls)
  /\ LET w == createRouteBus(createRouteBus([transports |-> <<>>, buses |-> <<>>],
                                            "none"), "none")
     IN  /\ transports = w.transports
         /\ buses = w.buses
  /\ via = <<{}, {}>>
  /\ bus = 0
  /\ adapter = NoAdapter

\* buses[i].on(event, h)
BusOn(i, event, h) ==
  /\ BusAllowed(i, event, h)
  /\ BusCommit(i, Returned(on(BusMachine(i), event, Raw(h))),
               Call("on", event, Raw(h), 0, "-"), {<<event, Raw(h)>>})

\* buses[i].once(event, h)
BusOnce(i, event, h) ==
  /\ BusAllowed(i, event, h)
  /\ BusCommit(i, Returned(once(BusMachine(i), event, h)),
               Call("once", event, Wrapped(h, nextWrapper), 0, "-"),
               {<<event, Wrapped(h, nextWrapper)>>})

\* buses[i].emit(event, payload)
BusEmit(i, event, payload) ==
  /\ BusAllowed(i, event, "-")
  /\ \E B \in BusBehaviourChoices(i, {event}) :
       BusCommit(i, Returned(emit(BusMachine(i), event, payload, B, "api")),
                 Call("emit", event, NoKey, payload, "-"), {})

\* buses[i].enqueue(event, payload)
BusEnqueue(i, event, payload) ==
  /\ BusAllowed(i, event, "-")
  /\ BusCommit(i, Returned(enqueue(BusMachine(i), event, payload)),
               Call("enqueue", event, NoKey, payload, "-"), {})

\* buses[i].drain() when P is "default", buses[i].drain(processor) otherwise
BusDrain(i, P) ==
  /\ BusAllowed(i, "-", "-")
  /\ \E B \in BusBehaviourChoices(i, IF P \in {"default", "emit"}
                                     THEN BusQueuedEvents(i) ELSE {}) :
       BusCommit(i, drain(BusMachine(i), P, B),
                 Call("drain", "-", NoKey, 0, IF P = "default" THEN P ELSE "custom"),
                 {})

\* buses[i].clear()
BusClear(i) ==
  /\ BusAllowed(i, "-", "-")
  /\ BusCommit(i, Returned(clear(BusMachine(i))),
               Call("clear", "-", NoKey, 0, "-"), {})

\* The calls the caller makes on either bus; those of emit and enqueue carry
\* the first payload, the handlers they reach may emit or enqueue the next.
NextTwo ==
  \E i \in DOMAIN buses :
    \/ \E event \in Events, h \in Handlers : BusOn(i, event, h)
    \/ \E event \in Events, h \in Handlers : BusOnce(i, event, h)
    \/ \E event \in Events : BusEmit(i, event, 1)
    \/ \E event \in Events : BusEnqueue(i, event, 1)
    \/ \E P \in {"default"} \cup ProcessorBehaviours : BusDrain(i, P)
    \/ BusClear(i)

SpecTwo == InitTwo /\ [][NextTwo]_vars

\* C20: two buses created without a transport option are isolated. Each has
\* a transport, a registry and a queue of its own, so an emit, enqueue, drain
\* or clear on one bus invokes only handlers registered through that bus,
\* and leaves the registry, the queue and the subscriber sets of the other
\* bus unchanged.
C20_BusesIsolated ==
  [][last'.op \in {"emit", "enqueue", "drain", "clear"} =>
       \A j \in DOMAIN buses \ {bus'} :
         /\ buses[j].transport # buses[bus'].transport
         /\ buses'[j] = buses[j]
         /\ transports'[buses[j].transport] = transports[buses[j].transport]
         /\ \A n \in 1..Len(calls') :
              <<calls'[n].event, calls'[n].key>> \in via[bus']]_vars

\* An emit on one bus has invoked a handler while the other bus had another
\* handler subscribed to the same event and an item of that event in its
\* queue.
C20_Witness ==
  /\ last.op = "emit"
  /\ Len(calls) > 0
  /\ \E j \in DOMAIN buses \ {bus} :
       /\ \E k \in Range(BusSubscribers(j, last.event)) : k.fn # calls[1].key.fn
       /\ last.event \in BusQueuedEvents(j)

\* ------------------------------------------------------------ registry and transport
\* The (event, handler) pairs the registry fns tracks.
RegistryPairs(fns) ==
  {<<e, k>> \in Events \X UNION {DOMAIN fns[x] : x \in DOMAIN fns} :
     MapHas(fns, getEventKey(e)) /\ MapHas(fns[getEventKey(e)], k)}

\* The (event, handler) pairs in the subscriber sets ls.
TransportPairs(ls) == UNION {{<<e, k>> : k \in Range(ls[e])} : e \in DOMAIN ls}

\* C22: between top-level operations the (event, handler) pairs the registry
\* tracks are the pairs in the transport's subscriber sets, so that no
\* subscription exists that the registry cannot remove.
C22_RegistryMatchesTransport ==
  RegistryPairs(unsubscribeFunctions) = TransportPairs(listeners)

\* A handler has been removed by a function on returned, or by off after such
\* a function was called for it, while another subscription stays in place.
C22_Witness ==
  /\ last.op \in {"off", "unsubscribe"}
  /\ <<last.event, last.key.fn>> \in stale
  /\ TransportPairs(listeners) # {}

\* ------------------------------------------------------------ re-entrant once
\* C23: a handler registered with once(E, h) that emits E from inside its
\* own invocation is not invoked again by that nested emit.
C23_OnceNotReinvokedByOwnEmit ==
  [][\A i \in 1..Len(calls') :
       calls'[i].key.id > 0 =>
         \A p \in 1..Len(pubs') :
           (pubs'[p].src = "handler" /\ pubs'[p].by = i) =>
             \A j \in 1..Len(calls') :
               ~(calls'[j].pub = p /\ calls'[j].key = calls'[i].key)]_vars

\* The i-th invocation of cs raised: its publish of ps failed with it.
Raised(cs, ps, i) ==
  /\ ~ps[cs[i].pub].done
  /\ \A j \in 1..Len(cs) : cs[j].pub = cs[i].pub => j <= i

\* C24: a handler registered with once(E, h) that raises during its first
\* invocation is unsubscribed by that invocation all the same, so that no
\* later emit of E invokes it.
C24_RaisingOnceIsUnsubscribed ==
  [][\A i \in 1..Len(calls') :
       (calls'[i].key.id > 0 /\ Raised(calls', pubs', i)) =>
         ~(/\ MapHas(listeners', calls'[i].event)
           /\ SetHas(listeners'[calls'[i].event], calls'[i].key))]_vars

\* ------------------------------------------------------------ re-entrant registration
\* C25: a handler registered for E (with on or once) from inside a handler
\* during a dispatch of emit(E, P) is not invoked in that dispatch, and the
\* next emit of E invokes it.
C25_RegisteredDuringDispatch ==
  [][last'.op = "emit" =>
       LET E == last'.event
       IN  /\ \A i \in 1..Len(calls') :
                calls'[i].pub = 1 => SetHas(Subscribers(E), calls'[i].key)
           /\ (last.op = "emit" /\ last.event = E) =>
                \A k \in Range(Subscribers(E)) \ Range(pubs[1].handlersCopy) :
                  \E i \in 1..Len(calls') : calls'[i].pub = 1 /\ calls'[i].key = k]_vars

\* ------------------------------------------------------------ drain and enqueue
\* The (event, payload) items of the enqueue calls es, in order.
Enqueued(es) == [i \in 1..Len(es) |-> [event |-> es[i].event, payload |-> es[i].payload]]

\* C26 as stated: the items enqueued by a processor or a handler while a
\* drain call is running are processed within that drain call, after every
\* item that was queued before them, and drain returns only when the queue
\* is empty.
C26_EnqueuedDuringDrainProcessed ==
  [][last'.op = "drain" =>
       (/\ procs' = queue \o Enqueued(enqs')
        /\ ~raised' => queue' = <<>>)]_vars

\* C26 amended: as C26 when clear() is not called during the drain and no
\* processor raises. Without a clear() the items processed and the items
\* left in the queue are, in order, the items queued before the drain and
\* the items enqueued during it; a drain that returns leaves the queue empty.
C26_EnqueuedDuringDrainProcessedUnlessStopped ==
  [][last'.op = "drain" =>
       (/\ clears' = <<>> => procs' \o queue' = queue \o Enqueued(enqs')
        /\ ~raised' => queue' = <<>>)]_vars

\* A drain has processed an item that was queued before it and then an item
\* that a handler or the processor enqueued while it ran.
C26_Witness ==
  /\ last.op = "drain"
  /\ ~raised
  /\ clears = <<>>
  /\ enqs # <<>>
  /\ Len(procs) > Len(enqs)
  /\ procs[Len(procs)] = Enqueued(enqs)[Len(enqs)]

\* ------------------------------------------------------------ the drain loop, step by step
\* Processors that return from every call.
ReturningProcessors == {"default"} \cup (ProcessorBehaviours \ {"throw", "throw2"})

\* The loop that goes on while more than one item is queued.
loopCondition_MoreThanOne(m) == Len(m.queue) > 1

\* while (queue.length > 0)
loopCondition(m) == Len(m.queue) > 0

\* One iteration of the loop of drain:
\* const item = queue.shift(); proc(item.event, item.payload).
loopBody(m, P, B) ==
  LET item == Head(m.queue)
      m1 == [m EXCEPT !.queue = Tail(@),
                      !.procs = Append(@, [event |-> item.event,
                                           payload |-> item.payload])]
  IN  IF P = "default"
      THEN defaultProcessor(m1, item.event, item.payload, B)
      ELSE processor(m1, item.event, item.payload, P, B)

\* The state an iteration works on; procs, clears and enqs are kept over the
\* iterations of one drain call.
LoopMachine == [Machine EXCEPT !.procs = procs, !.clears = clears, !.enqs = enqs]

\* The bus after a step of the loop that has had the outcome r.
LoopCommit(r, op) ==
  /\ listeners' = r.m.listeners
  /\ unsubscribeFunctions' = r.m.unsubscribeFunctions
  /\ queue' = r.m.queue
  /\ nextWrapper' = r.m.nextWrapper
  /\ calls' = r.m.calls
  /\ pubs' = r.m.pubs
  /\ procs' = r.m.procs
  /\ clears' = r.m.clears
  /\ enqs' = r.m.enqs
  /\ tops' = r.m.tops
  /\ errors' = r.m.errors
  /\ raised' = ~r.ok
  /\ onceHist' = Observe(onceHist, r.m)
  /\ closes' = closes + Len(SelectSeq(r.m.tops, LAMBDA t : t = "close"))
  /\ last' = [last EXCEPT !.op = op]
  /\ UNCHANGED <<ncalls, budget, usedEvents, usedHandlers, issued, stale, gone,
                 drains, transports, buses, via, bus, adapter>>

\* bus.drain() or bus.drain(processor) is called: the loop is entered; the
\* handlers behave as B says for the whole call.
DrainBegin(P) ==
  /\ pc = Idle
  /\ ncalls < budget
  /\ \E B \in BehaviourChoices(IF P \in {"default", "emit"} THEN QueuedEvents ELSE {}) :
       pc' = [P |-> P, B |-> B, i |-> 0]
  /\ last' = Call("drain", "-", NoKey, 0, IF P = "default" THEN P ELSE "custom")
  /\ ncalls' = ncalls + 1
  /\ drains' = 1
  /\ calls' = <<>>
  /\ pubs' = <<>>
  /\ procs' = <<>>
  /\ clears' = <<>>
  /\ enqs' = <<>>
  /\ tops' = <<>>
  /\ errors' = 0
  /\ raised' = FALSE
  /\ UNCHANGED <<listeners, unsubscribeFunctions, queue, nextWrapper, budget,
                 usedEvents, usedHandlers, issued, stale, closes, gone, onceHist,
                 transports, buses, via, bus, adapter>>

\* while (queue.length > 0): one more iteration.
DrainStep ==
  /\ pc # Idle
  /\ loopCondition(Machine)
  /\ \E m \in {LoopMachine} : \E r \in {loopBody(m, pc.P, pc.B)} : LoopCommit(r, "drain")
  /\ pc' = [pc EXCEPT !.i = @ + 1]

\* while (queue.length > 0): the queue is empty, drain returns.
DrainEnd ==
  /\ pc # Idle
  /\ ~loopCondition(Machine)
  /\ \E r \in {Returned(LoopMachine)} : LoopCommit(r, "drained")
  /\ pc' = Idle

\* The bus between calls, and a drain call followed through its loop.
NextLoop ==
  \/ pc = Idle /\ \E event \in Events, h \in Handlers : On(event, h)
  \/ pc = Idle /\ \E event \in Events, payload \in Payloads : Enqueue(event, payload)
  \/ \E P \in ReturningProcessors : DrainBegin(P)
  \/ DrainStep
  \/ DrainEnd

\* The control part of DrainStep: the loop goes into its next iteration. A
\* step of NextLoop is an Iterate step that changes pc exactly when it is a
\* DrainStep step, and both are enabled in the same states.
Iterate ==
  /\ pc # Idle
  /\ loopCondition(Machine)
  /\ pc' = [pc EXCEPT !.i = @ + 1]

\* A drain that is running goes on: its loop is synchronous code, and the
\* handlers and processors it calls return.
SpecLoop ==
  /\ Init
  /\ [][NextLoop]_vars
  /\ WF_pc(Iterate)
  /\ WF_vars(DrainEnd)

\* C27: every drain call eventually returns, with the queue empty, when the
\* handlers and processors it runs return and enqueue finitely many items.
C27_DrainReturns == (pc # Idle) ~> (pc = Idle /\ last.op = "drained" /\ queue = <<>>)

\* A drain has returned after processing an item that was enqueued while it
\* ran.
C27_Witness ==
  /\ pc = Idle
  /\ last.op = "drained"
  /\ enqs # <<>>
  /\ Len(procs) > Len(enqs)

\* ------------------------------------------------------- adapter transports
\* The Redis and the BroadcastChannel transport: their listeners Map and the
\* callback each of them runs for a message that comes in from outside.

\* JavaScript values a message can carry.
JsNull == [t |-> "null"]

JsUndefined == [t |-> "undefined"]

JsNumber(n) == [t |-> "number", n |-> n]

JsString(s) == [t |-> "string", s |-> s]

\* An object literal; a property it does not have reads as undefined.
JsObject(event, payload) == [t |-> "object", event |-> event, payload |-> payload]

\* value.name: a TypeError on null and undefined, undefined on any other
\* value that has no such property.
Get(value, name) ==
  CASE value.t \in {"null", "undefined"} -> Thrown(JsUndefined)
    [] value.t = "object" ->
         Returned(IF name = "event" THEN value.event ELSE value.payload)
    [] OTHER -> Returned(JsUndefined)

\* Texts that arrive on a Redis channel.
RedisMessages ==
  << "{\"event\":\"a\",\"payload\":1}", "{\"event\":\"b\",\"payload\":2}",
     "{\"event\":\"a\"}", "{\"payload\":1}", "{\"event\":7,\"payload\":1}", "{}",
     "7", "\"a\"", "null", "{\"event\":\"a\"", "" >>

\* JSON.parse(message): the value the text denotes, a SyntaxError when it
\* denotes none.
JSON_parse(message) ==
  CASE message = "{\"event\":\"a\",\"payload\":1}" ->
         Returned(JsObject(JsString("a"), JsNumber(1)))
    [] message = "{\"event\":\"b\",\"payload\":2}" ->
         Returned(JsObject(JsString("b"), JsNumber(2)))
    [] message = "{\"event\":\"a\"}" -> Returned(JsObject(JsString("a"), JsUndefined))
    [] message = "{\"payload\":1}" -> Returned(JsObject(JsUndefined, JsNumber(1)))
    [] message = "{\"event\":7,\"payload\":1}" ->
         Returned(JsObject(JsNumber(7), JsNumber(1)))
    [] message = "{}" -> Returned(JsObject(JsUndefined, JsUndefined))
    [] message = "7" -> Returned(JsNumber(7))
    [] message = "\"a\"" -> Returned(JsString("a"))
    [] message = "null" -> Returned(JsNull)
    [] OTHER -> Thrown(JsUndefined)

\* Values of MessageEvent.data that arrive on a BroadcastChannel (structured
\* clones of what any page of the origin posted).
BroadcastData ==
  << JsObject(JsString("a"), JsNumber(1)), JsObject(JsString("b"), JsNumber(2)),
     JsObject(JsString("a"), JsUndefined), JsObject(JsUndefined, JsNumber(1)),
     JsObject(JsNumber(7), JsNumber(1)), JsObject(JsUndefined, JsUndefined),
     JsNumber(7), JsString("a"), JsNull, JsUndefined >>

\* What a handler does when an adapter invokes it.
AdapterBehaviours == {"return", "throw"}

\* The transport createRedisTransport or createBroadcastChannelTransport
\* returns, with what its last operation did: the handlers invoked, whether
\* the callback raised, the console.error calls, the messages posted.
createAdapter(kind) ==
  [kind |-> kind, listeners |-> EmptyMap, op |-> "create", message |-> "",
   data |-> JsUndefined, invoked |-> <<>>, raised |-> FALSE, logged |-> 0,
   posted |-> <<>>]

\* subscribe: listeners.get(event).add(handler), on a new Set when there is none.
adapter_subscribe(a, event, h) ==
  [a EXCEPT !.listeners =
     MapSet(@, event, SetAdd(IF MapHas(@, event) THEN @[event] ELSE <<>>, h))]

\* The function subscribe returns.
adapter_unsubscribe(a, event, h) ==
  IF MapHas(a.listeners, event)
  THEN LET handlers == SetDelete(a.listeners[event], h)
       IN  [a EXCEPT !.listeners = IF handlers = <<>> THEN MapDelete(@, event)
                                   ELSE MapSet(@, event, handlers)]
  ELSE a

\* for (const handler of handlersCopy) handler(payload), from index i on.
RECURSIVE adapter_forEachHandler(_, _, _, _, _)
adapter_forEachHandler(a, handlersCopy, i, payload, B) ==
  IF i > Len(handlersCopy) THEN Returned(a)
  ELSE LET a1 == [a EXCEPT !.invoked = Append(@, [fn |-> handlersCopy[i],
                                                  payload |-> payload])]
       IN  IF B[handlersCopy[i]] = "throw" THEN Thrown(a1)
           ELSE adapter_forEachHandler(a1, handlersCopy, i + 1, payload, B)

\* const handlers = listeners.get(eventName); if (handlers) { ... }. The keys
\* of listeners are event names, so any other value finds nothing.
adapter_dispatch(a, eventName, payload, B) ==
  IF eventName.t = "string" /\ MapHas(a.listeners, eventName.s)
  THEN adapter_forEachHandler(a, a.listeners[eventName.s], 1, payload.m, B)
  ELSE Returned(a)

\* redis.on('message', (_channel, message) => { try { ... } catch (error) {
\* console.error(...) } }).
redis_onMessage(a, message, B) ==
  LET data == JSON_parse(message)
      eventName == Get(data.m, "event")
      r == IF ~data.ok \/ ~eventName.ok THEN Thrown(a)
           ELSE adapter_dispatch(a, eventName.m, Get(data.m, "payload"), B)
  IN  IF r.ok THEN r ELSE Returned([r.m EXCEPT !.logged = @ + 1])

\* channel.onmessage = (event) => { const { event: eventName, payload } =
\* event.data; ... }: destructuring null or undefined raises a TypeError, and
\* nothing catches it or what a handler raises.
channel_onmessage(a, data, B) ==
  LET eventName == Get(data, "event")
  IN  IF ~eventName.ok THEN Thrown(a)
      ELSE adapter_dispatch(a, eventName.m, Get(data, "payload"), B)

busVars == <<listeners, unsubscribeFunctions, queue, nextWrapper, ncalls, budget,
             usedEvents, usedHandlers, issued, stale, closes, gone, onceHist, last,
             calls, pubs, procs, clears, drains, enqs, tops, errors, raised,
             transports, buses, via, bus, pc>>

\* One adapter transport, of either kind, with no subscription yet.
InitAdapter ==
  /\ Fresh(MaxCalls)
  /\ transports = <<>>
  /\ buses = <<>>
  /\ via = <<>>
  /\ bus = 0
  /\ adapter \in {createAdapter(kind) : kind \in {"redis", "broadcast"}}

\* The adapter after an operation that has had the outcome r.
AdapterCommit(r, op, message, data) ==
  /\ adapter' = [r.m EXCEPT !.op = op, !.message = message, !.data = data,
                            !.raised = ~r.ok]
  /\ UNCHANGED busVars

\* What the last operation did is forgotten when the next one starts.
AdapterMachine == [adapter EXCEPT !.invoked = <<>>, !.logged = 0, !.posted = <<>>]

\* transport.subscribe(event, h).
AdapterSubscribe(event, h) ==
  /\ adapter.kind \in {"redis", "broadcast"}
  /\ AdapterCommit(Returned(adapter_subscribe(AdapterMachine, event, h)),
                   "subscribe", "", JsUndefined)

\* The function transport.subscribe(event, h) returned is called.
AdapterUnsubscribe(event, h) ==
  /\ adapter.kind \in {"redis", "broadcast"}
  /\ AdapterCommit(Returned(adapter_unsubscribe(AdapterMachine, event, h)),
                   "unsubscribe", "", JsUndefined)

\* A message arrives on a subscribed Redis channel.
RedisMessage(message) ==
  /\ adapter.kind = "redis"
  /\ \E B \in [Handlers -> AdapterBehaviours] :
       AdapterCommit(redis_onMessage(AdapterMachine, message, B),
                     "message", message, JsUndefined)

\* A message arrives on the BroadcastChannel.
ChannelMessage(data) ==
  /\ adapter.kind = "broadcast"
  /\ \E B \in [Handlers -> AdapterBehaviours] :
       AdapterCommit(channel_onmessage(AdapterMachine, data, B), "message", "", data)

NextAdapter ==
  \/ \E event \in Events, h \in Handlers : AdapterSubscribe(event, h)
  \/ \E event \in Events, h \in Handlers : AdapterUnsubscribe(event, h)
  \/ \E i \in 1..Len(RedisMessages) : RedisMessage(RedisMessages[i])
  \/ \E i \in 1..Len(BroadcastData) : ChannelMessage(BroadcastData[i])

SpecAdapter == InitAdapter /\ [][NextAdapter]_vars

\* A message both transports post: an object whose event is an event name
\* (publish posts { event, payload }; a payload may be undefined).
WellFormed(value) == value.t = "object" /\ value.event.t = "string"

\* The last inbound message of a was not such a message.
Malformed(a) ==
  IF a.kind = "redis"
  THEN LET data == JSON_parse(a.message) IN ~data.ok \/ ~WellFormed(data.m)
  ELSE ~WellFormed(a.data)

\* C21: the inbound-message callback of the Redis transport and of the
\* BroadcastChannel transport raises no error for a malformed or undecodable
\* message and invokes no handler for it.
C21_MalformedDropped ==
  (adapter.kind # "memory" /\ adapter.op = "message" /\ Malformed(adapter))
    => (~adapter.raised /\ adapter.invoked = <<>>)

\* ------------------------------------------------------------ every item once
\* The items a bus can hold.
Items == [event : Events, payload : Payloads]

\* How often x is in the sequence s.
Count(s, x) == Cardinality({i \in 1..Len(s) : s[i] = x})

\* C28: over any interleaving of enqueue, drain (a drain called from a handler
\* or a processor of a running drain included) and emit, no item is handed to
\* a processor more often than it was enqueued, and none is duplicated: the
\* items a call hands to processors and the items it leaves in the queue are
\* among the items queued before it and enqueued during it; an item leaves the
\* queue only by being processed or by clear(): without a clear() they are
\* exactly those items.
C28_EachItemAtMostOnce ==
  [][\A x \in Items :
       LET before == Count(queue \o Enqueued(enqs'), x)
           after == Count(procs' \o queue', x)
       IN  /\ after <= before
           /\ clears' = <<>> => after = before]_vars

\* A drain called from inside a running drain has processed items, some of
\* them enqueued while it ran.
C28_Witness ==
  /\ last.op = "drain"
  /\ drains > 1
  /\ enqs # <<>>
  /\ Len(procs) > 1
  /\ clears = <<>>

\* ------------------------------------------------------------ a processor that raises
\* C29: when a custom processor raises while it processes item i, the error
\* propagates out of drain, items 1..i have been removed from the queue (the
\* ones before i processed), and the items after i stay queued in their
\* order; the drain called next processes those items in order, all of them
\* and only them when it returns and nothing clears or enqueues meanwhile.
C29_RaisingProcessorLeavesTheRest ==
  [][/\ (last'.op = "drain" /\ raised') =>
          /\ last'.proc = "custom"
          /\ procs' # <<>>
          /\ procs' = SubSeq(queue, 1, Len(procs'))
          /\ queue' = SubSeq(queue, Len(procs') + 1, Len(queue))
     /\ (last.op = "drain" /\ raised /\ last'.op = "drain") =>
          /\ SameOrder(procs', queue, BeforeClear)
          /\ (~raised' /\ clears' = <<>> /\ enqs' = <<>>) => procs' = queue]_vars

\* A custom processor has raised on the second item or a later one, and
\* items are left in the queue.
C29_Witness ==
  /\ last.op = "drain"
  /\ raised
  /\ Len(procs) > 1
  /\ queue # <<>>

\* ------------------------------------------------------------ a handler that raises in a drain
\* A handler has raised in the dispatch of an item that drain emitted.
RaisedInDrain(ps) == \E j \in 1..Len(ps) : ps[j].src = "drain" /\ ~ps[j].done

NextDrainDeep ==
  \/ \E event \in Events, h \in Handlers : On(event, h)
  \/ \E event \in Events, h \in Handlers : Once(event, h)
  \/ \E event \in Events : Enqueue(event, 1)
  \/ Drain

SpecDrainDeep == InitDeep /\ [][NextDrainDeep]_vars

\* The publish drain made for the c-th item it took from the queue.
DrainPub(ps, c) ==
  CHOOSE j \in 1..Len(ps) :
    /\ ps[j].src = "drain"
    /\ Cardinality({i \in 1..j : ps[i].src = "drain"}) = c

\* C31: when a handler calls clear() during a drain() without processor, the
\* items still in the queue are discarded and never handed to a processor
\* (what drain hands out afterwards was enqueued after the clear), every
\* handler in the snapshot of the current item's dispatch is still invoked,
\* and drain returns with an empty queue and an empty registry.
C31_ClearDuringDrain ==
  [][(last'.op = "drain" /\ last'.proc = "default" /\ clears' # <<>>) =>
       LET c == clears'[1]
           p == DrainPub(pubs', c)
       IN  /\ ~raised'
           /\ queue' = <<>>
           /\ unsubscribeFunctions' = EmptyMap
           /\ listeners' = EmptyMap
           /\ SubSeq(procs', 1, c) = SubSeq(queue, 1, c)
           /\ Len(procs') - c <= Cardinality({k \in 1..Len(enqs') : enqs'[k].after >= c})
           /\ \A i \in (c + 1)..Len(procs') :
                \E k \in 1..Len(enqs') :
                  enqs'[k].after >= c /\ Enqueued(enqs')[k] = procs'[i]
           /\ CallsOf(calls', p) = EachOnce(pubs'[p].handlersCopy, pubs'[p].event,
                                            pubs'[p].payload, p)]_vars

\* ------------------------------------------------------------ off and once
\* C32: off(E, h) does not cancel a registration made with once(E, h): the
\* once registrations of E (the registry holds them under their wrappers)
\* are still active after the off, and the next emit(E, P) invokes h through
\* each once registration of h.
C32_OffKeepsOnceRegistration ==
  [][/\ last'.op = "off" =>
          \A k \in Range(Subscribers(last'.event)) :
            k.id # 0 =>
              /\ MapHas(listeners', last'.event)
              /\ SetHas(listeners'[last'.event], k)
              /\ MapHas(unsubscribeFunctions', getEventKey(last'.event))
              /\ MapHas(unsubscribeFunctions'[getEventKey(last'.event)], k)
     /\ (last.op = "off" /\ last'.op = "emit" /\ last'.event = last.event) =>
          \A k \in Range(Subscribers(last.event)) :
            (k.id # 0 /\ k.fn = last.key.fn) =>
              \E i \in 1..Len(calls') : calls'[i].key = k /\ calls'[i].pub = 1]_vars

\* ------------------------------------------------------------ dispatch position
SubscribersIn(ls, event) == IF MapHas(ls, event) THEN ls[event] ELSE <<>>

IndexOf(set, x) == CHOOSE i \in 1..Len(set) : set[i] = x

\* The members of s that are still in t stand in t in the order they have in s.
OrderKept(s, t) ==
  \A i, j \in 1..Len(s) :
    (i < j /\ SetHas(t, s[i]) /\ SetHas(t, s[j])) => IndexOf(t, s[i]) < IndexOf(t, s[j])

\* C33: the dispatch position of a handler is fixed by the on call that added
\* it while it was not registered: no call changes the relative order of the
\* handlers that stay registered, on(E, h) with h registered leaves the
\* subscribers as they are, on(E, h) with h not registered (never registered,
\* or unsubscribed before) puts h behind every registered handler, and a
\* dispatch runs over the subscribers in that order.
C33_DispatchPosition ==
  [][/\ \A e \in Events : OrderKept(Subscribers(e), SubscribersIn(listeners', e))
     /\ last'.op = "on" =>
          IF SetHas(Subscribers(last'.event), last'.key)
          THEN listeners' = listeners
          ELSE SubscribersIn(listeners', last'.event)
                 = Append(Subscribers(last'.event), last'.key)
     /\ last'.op = "emit" => pubs'[1].handlersCopy = Subscribers(last'.event)]_vars

C33_Witness ==
  /\ last.op = "on"
  /\ <<last.event, last.key.fn>> \in stale
  /\ Len(Subscribers(last.event)) >= 2
  /\ Subscribers(last.event)[Len(Subscribers(last.event))] = last.key
  /\ \E i \in 1..(Len(Subscribers(last.event)) - 1) :
       <<last.event, Subscribers(last.event)[i].fn>> \notin stale \cup gone

\* ------------------------------------------------------------ empty buckets
\* C34: in every reachable state neither the in-memory transport nor the bus
\* registry holds an event key whose handler collection is empty.
C34_NoEmptyBucket ==
  /\ \A event \in DOMAIN listeners : Len(listeners[event]) > 0
  /\ \A eventKey \in DOMAIN unsubscribeFunctions :
       DOMAIN unsubscribeFunctions[eventKey] # {}

\* off has just removed the last handler of an event, while another event
\* keeps its handlers.
C34_Witness ==
  /\ last.op = "off"
  /\ \E i \in 1..Len(tops) : tops[i] = "unsubscribe"
  /\ ~MapHas(listeners, last.event)
  /\ ~MapHas(unsubscribeFunctions, getEventKey(last.event))
  /\ listeners # EmptyMap

\* ------------------------------------------------------------ registry and queue
IsSuffix(items, whole) ==
  /\ Len(items) <= Len(whole)
  /\ \A i \in 1..Len(items) : items[i] = whole[Len(whole) - Len(items) + i]

\* C35: on, once, off and the unsubscribe functions never change the queue,
\* and emit changes the queue only through the enqueue, drain and clear
\* calls of the handlers it invokes: with none of them the queue is as
\* before, with enqueue calls only it is the queue before followed by the
\* items enqueued, in order, and after a clear() with no drain it holds only
\* the last of the items the handlers enqueued.
C35_RegistryAndQueueIndependent ==
  [][/\ last'.op \in {"on", "once", "off", "unsubscribe"} => queue' = queue
     /\ last'.op = "emit" =>
          /\ (clears' = <<>> /\ drains' = 0) => queue' = queue \o Enqueued(enqs')
          /\ (clears' # <<>> /\ drains' = 0) => IsSuffix(queue', Enqueued(enqs'))
          /\ \A i \in 1..Len(queue') :
               \/ \E k \in 1..Len(queue) : queue[k] = queue'[i]
               \/ \E k \in 1..Len(enqs') : Enqueued(enqs')[k] = queue'[i]]_vars

\* off has removed a handler of an event that has items in the queue.
C35_Witness ==
  /\ last.op = "off"
  /\ \E i \in 1..Len(tops) : tops[i] = "unsubscribe"
  /\ \E i \in 1..Len(queue) : queue[i].event = last.event

\* ------------------------------------------------------------ local delivery
\* The BroadcastChannel transport and the in-memory transport, given the same
\* subscribe, unsubscribe and publish calls: adapter is the first, listeners
\* is the Map of the second and calls are the handlers it invoked.

\* A function value: the structured clone algorithm does not serialize it.
JsFunction == [t |-> "function"]

\* Payloads the caller publishes.
LocalPayloads ==
  {JsNumber(1), JsUndefined, JsObject(JsString("a"), JsNumber(1)), JsFunction,
   JsObject(JsString("a"), JsFunction)}

\* Whether the structured clone algorithm serializes value.
RECURSIVE Cloneable(_)
Cloneable(value) ==
  CASE value.t = "function" -> FALSE
    [] value.t = "object" -> Cloneable(value.event) /\ Cloneable(value.payload)
    [] OTHER -> TRUE

\* channel.postMessage(message) on an open channel: a DataCloneError when the
\* message cannot be cloned.
postMessage(a, message) ==
  IF Cloneable(message)
  THEN Returned([a EXCEPT !.posted = Append(@, message)])
  ELSE Thrown(a)

\* publish of the BroadcastChannel transport: posts { event, payload }, then
\* runs the snapshot of the local handlers of event.
broadcast_publish(a, event, payload, B) ==
  LET r == postMessage(a, JsObject(JsString(event), payload))
  IN  IF ~r.ok THEN r
      ELSE IF MapHas(r.m.listeners, event)
           THEN adapter_forEachHandler(r.m, r.m.listeners[event], 1, payload, B)
           ELSE r

InitLocal ==
  /\ Fresh(MaxCalls)
  /\ transports = <<>>
  /\ buses = <<>>
  /\ via = <<>>
  /\ bus = 0
  /\ adapter = createAdapter("broadcast")

\* The in-memory transport after the same operation, with the outcome r.
MemoryCommit(r, call) ==
  /\ listeners' = r.m.listeners
  /\ calls' = r.m.calls
  /\ pubs' = r.m.pubs
  /\ tops' = r.m.tops
  /\ raised' = ~r.ok
  /\ last' = call
  /\ UNCHANGED <<unsubscribeFunctions, queue, nextWrapper, ncalls, budget, usedEvents,
                 usedHandlers, issued, stale, closes, gone, onceHist, procs, clears,
                 drains, enqs, errors, transports, buses, via, bus, pc>>

\* subscribe(event, h) on both transports.
LocalSubscribe(event, h) ==
  /\ adapter' = [adapter_subscribe(AdapterMachine, event, h) EXCEPT
                   !.op = "subscribe", !.raised = FALSE]
  /\ MemoryCommit(Returned(subscribe(Machine, event, Raw(h))),
                  Call("subscribe", event, Raw(h), JsUndefined, "-"))

\* The functions the two subscribe(event, h) calls returned are called.
LocalUnsubscribe(event, h) ==
  /\ adapter' = [adapter_unsubscribe(AdapterMachine, event, h) EXCEPT
                   !.op = "unsubscribe", !.raised = FALSE]
  /\ MemoryCommit(Returned(unsubscribe_transport(Machine,
                                                 TransportUnsubscribe(event, Raw(h)))),
                  Call("unsubscribe", event, Raw(h), JsUndefined, "-"))

\* publish(event, payload) on both transports, to handlers that do the same
\* in both.
LocalPublish(event, payload) ==
  \E B \in [Handlers -> AdapterBehaviours] :
    /\ \E r \in {broadcast_publish(AdapterMachine, event, payload, B)} :
         adapter' = [r.m EXCEPT !.op = "publish", !.raised = ~r.ok]
    /\ MemoryCommit(publish(Machine, event, payload, B, "api"),
                    Call("publish", event, NoKey, payload, "-"))

NextLocal ==
  \/ \E event \in Events, h \in Handlers : LocalSubscribe(event, h)
  \/ \E event \in Events, h \in Handlers : LocalUnsubscribe(event, h)
  \/ \E event \in Events, payload \in LocalPayloads : LocalPublish(event, payload)

SpecLocal == InitLocal /\ [][NextLocal]_vars

\* The handler invocations of the in-memory transport, as the adapter records its own.
Invoked(cs) == [i \in 1..Len(cs) |-> [fn |-> cs[i].key.fn, payload |-> cs[i].payload]]

\* C36: for local delivery the BroadcastChannel transport behaves like the
\* in-memory transport while its channel is open: after the same subscribe,
\* unsubscribe and publish calls both hold the same handlers in the same
\* order, and a publish invokes the same handlers in the same order with the
\* same payloads on both, from the snapshot taken at publish.
C36_LocalDeliveryAsInMemory ==
  (adapter.kind = "broadcast" /\ last.op \in {"subscribe", "unsubscribe", "publish"}) =>
    /\ \A event \in Events :
         SubscribersIn(adapter.listeners, event)
           = [i \in 1..Len(Subscribers(event)) |-> Subscribers(event)[i].fn]
    /\ adapter.invoked = Invoked(calls)
    /\ last.op = "publish" =>
         /\ IsPrefix([i \in 1..Len(adapter.invoked) |-> Raw(adapter.invoked[i].fn)],
                     pubs[1].handlersCopy)
         /\ \A i \in 1..Len(adapter.invoked) : adapter.invoked[i].payload = last.payload

\* ------------------------------------------------------------ Redis channels
\* The Redis transport with its subscribedChannels Set and the client it was
\* given: r.listeners and r.subscribedChannels are the transport's, r.commands
\* the client calls of the last operation.

\* What a call of the client does: it returns (a value or a promise, settled
\* either way later), or it raises.
ClientOutcomes == {"return", "throw"}

getChannelName(event) == <<"routebus", event>>

\* createRedisTransport(redis) on a client with or without unsubscribe.
createRedisTransport(hasUnsubscribe) ==
  [kind |-> "redis", listeners |-> EmptyMap, subscribedChannels |-> {},
   hasUnsubscribe |-> hasUnsubscribe, op |-> "create", event |-> "-",
   commands |-> <<>>, raised |-> FALSE]

\* redis.subscribe(channel) or redis.unsubscribe(channel) with outcome o.
redis_command(r, name, channel, o) ==
  LET r1 == [r EXCEPT !.commands = Append(@, <<name, channel>>)]
  IN  IF o = "throw" THEN Thrown(r1) ELSE Returned(r1)

\* subscribe of the Redis transport.
redis_subscribe(r, event, h, o) ==
  LET channel == getChannelName(event)
      s == IF channel \notin r.subscribedChannels
           THEN LET c == redis_command(r, "subscribe", channel, o)
                IN  IF c.ok
                    THEN Returned([c.m EXCEPT !.subscribedChannels = @ \cup {channel}])
                    ELSE c
           ELSE Returned(r)
  IN  IF ~s.ok THEN s
      ELSE Returned([s.m EXCEPT !.listeners =
             MapSet(@, event, SetAdd(IF MapHas(@, event) THEN @[event] ELSE <<>>, h))])

\* The function subscribe returned.
redis_unsubscribe(r, event, h, o) ==
  IF MapHas(r.listeners, event)
  THEN LET channel == getChannelName(event)
           handlers == SetDelete(r.listeners[event], h)
       IN  IF Len(handlers) = 0
           THEN LET r1 == [r EXCEPT !.listeners = MapDelete(@, event)]
                    c == IF r.hasUnsubscribe
                         THEN redis_command(r1, "unsubscribe", channel, o)
                         ELSE Returned(r1)
                IN  IF c.ok
                    THEN Returned([c.m EXCEPT !.subscribedChannels = @ \ {channel}])
                    ELSE c
           ELSE Returned([r EXCEPT !.listeners = MapSet(@, event, handlers)])
  ELSE Returned(r)

\* close, up to the quit of the client.
redis_close(r) == [r EXCEPT !.listeners = EmptyMap, !.subscribedChannels = {}]

InitRedis ==
  /\ Fresh(MaxCalls)
  /\ transports = <<>>
  /\ buses = <<>>
  /\ via = <<>>
  /\ bus = 0
  /\ adapter \in {createRedisTransport(u) : u \in BOOLEAN}

\* The transport after an operation on event that has had the outcome r.
RedisCommit(r, op, event) ==
  /\ adapter' = [r.m EXCEPT !.op = op, !.event = event, !.raised = ~r.ok]
  /\ UNCHANGED busVars

RedisMachine == [adapter EXCEPT !.commands = <<>>]

\* transport.subscribe(event, h) before close.
RedisSubscribe(event, h) ==
  /\ adapter.op # "close"
  /\ \E o \in ClientOutcomes :
       RedisCommit(redis_subscribe(RedisMachine, event, h, o), "subscribe", event)

\* The function transport.subscribe(event, h) returned is called before close.
RedisUnsubscribe(event, h) ==
  /\ adapter.op # "close"
  /\ \E o \in ClientOutcomes :
       RedisCommit(redis_unsubscribe(RedisMachine, event, h, o), "unsubscribe", event)

\* transport.close()
RedisClose ==
  /\ adapter.op # "close"
  /\ RedisCommit(Returned(redis_close(RedisMachine)), "close", "-")

NextRedis ==
  \/ \E event \in Events, h \in Handlers : RedisSubscribe(event, h)
  \/ \E event \in Events, h \in Handlers : RedisUnsubscribe(event, h)
  \/ RedisClose

SpecRedis == InitRedis /\ [][NextRedis]_vars

\* C37: in the Redis transport, between operations and before close, the
\* channel of event E is in subscribedChannels exactly when at least one
\* handler is registered for E; redis.subscribe is issued only by the
\* subscribe that adds the first handler of E, and redis.unsubscribe by the
\* unsubscribe that removes the last one.
C37_ChannelIffHandler ==
  [][adapter'.op \in {"subscribe", "unsubscribe"} =>
       LET event == adapter'.event
           channel == getChannelName(event)
       IN  /\ \A e \in Events :
                getChannelName(e) \in adapter'.subscribedChannels
                  <=> SubscribersIn(adapter'.listeners, e) # <<>>
           /\ adapter'.op = "subscribe" =>
                adapter'.commands
                  = IF MapHas(adapter.listeners, event) THEN <<>>
                    ELSE << <<"subscribe", channel>> >>
           /\ adapter'.op = "unsubscribe" =>
                adapter'.commands
                  = IF /\ MapHas(adapter.listeners, event)
                       /\ ~MapHas(adapter'.listeners, event)
                       /\ adapter.hasUnsubscribe
                    THEN << <<"unsubscribe", channel>> >>
                    ELSE <<>>]_vars

====
